---- MODULE Spec2Model ----
(***************************************************************************)
(* Model of ctrl_pulse_optim_example_Lindbladian_check_grad.py: a script   *)
(* that builds a Lindbladian model, creates a pulse optimizer, generates   *)
(* the initial pulse, saves it, optionally checks the gradient, runs the   *)
(* optimisation, reports and plots.                                        *)
(*                                                                         *)
(* The script's own statements are modelled step by step.  The values the  *)
(* external library computes (pulse samples, the gradient discrepancy, the *)
(* optimisation result) are opaque: pulse samples are symbolic tokens      *)
(* <<call, slot>>, the discrepancy is drawn from a small set, and any      *)
(* library call may raise.                                                 *)
(***************************************************************************)
EXTENDS Integers, Sequences, FiniteSets, TLC

VARIABLES
    pc,             \* the statement group the interpreter is about to execute
    example_name,   \* line 42
    n_ctrls,        \* line 78, len(ctrls)
    n_ts,           \* line 88
    check_gradient, \* line 103
    p_type,         \* line 107
    f_ext,          \* line 111
    num_tslots,     \* the pulse generator's slot count, fixed by create_pulse_optimizer
    init_amps,      \* line 136, rows of the (n_ts, n_ctrls) array
    j,              \* loop index of line 137
    gen_calls,      \* number of p_gen.gen_pulse() calls made so far
    init_arg,       \* the array handed to dyn.initialize_controls (<<>> before the call)
    ctrl_amps,      \* dyn.ctrl_amps as set by dyn.initialize_controls
    pulsefile,      \* line 143
    fs_writes,      \* the writes made by dyn.save_amps, in order: [name, rows]
    grad_diff,      \* line 154, -1 while not computed
    result,         \* line 159, whether run_optimization has returned a result
    raised_at,      \* the step whose exception ended the process, "none" otherwise
    log             \* the steps invoked so far, in order

vars == <<pc, example_name, n_ctrls, n_ts, check_gradient, p_type, f_ext,
          num_tslots, init_amps, j, gen_calls, init_arg, ctrl_amps, pulsefile,
          fs_writes, grad_diff, result, raised_at, log>>

config == <<example_name, n_ctrls, n_ts, check_gradient, p_type>>

(***************************************************************************)
(* Bounds of the model and the shipped parameters.                         *)
(***************************************************************************)
MaxTs == 10
MaxCtrls == 2
MaxGradDiff == 2

Shipped_n_ts == 10
Shipped_n_ctrls == 2

ExampleNames == {"Lindblad", "Unitary"}
PulseTypes == {"RND", "ZERO", "LIN", "SINE", "SQUARE", "SAW", "TRIANGLE"}

(***************************************************************************)
(* str.format of a non-negative integer: its decimal digits.               *)
(***************************************************************************)
Digit(d) ==
    CASE d = 0 -> "0" [] d = 1 -> "1" [] d = 2 -> "2" [] d = 3 -> "3"
      [] d = 4 -> "4" [] d = 5 -> "5" [] d = 6 -> "6" [] d = 7 -> "7"
      [] d = 8 -> "8" [] d = 9 -> "9"

RECURSIVE FormatInt(_)
FormatInt(n) ==
    IF n < 10 THEN Digit(n) ELSE FormatInt(n \div 10) \o Digit(n % 10)

\* a format string that lost its ".txt" suffix
Format_f_ext_NoSuffix(name, ts, ptype) ==
    name \o "_n_ts" \o FormatInt(ts) \o "_ptype" \o ptype

\* line 111: "{}_n_ts{}_ptype{}.txt".format(example_name, n_ts, p_type)
Format_f_ext(name, ts, ptype) ==
    name \o "_n_ts" \o FormatInt(ts) \o "_ptype" \o ptype \o ".txt"

\* line 143: pulsefile = "ctrl_amps_initial_" + f_ext
PulsefileName(ext) == "ctrl_amps_initial_" \o ext

(***************************************************************************)
(* Arrays: a two-dimensional array is a sequence of rows.                  *)
(***************************************************************************)
Zero == <<0, 0>>

\* line 136: np.zeros([n_ts, n_ctrls])
np_zeros(rows, cols) == [r \in 1..rows |-> [c \in 1..cols |-> Zero]]

\* a loop that stops one control short: range(n_ctrls - 1)
LoopRange_Short(n) == 0..(n - 2)

\* line 137: range(n_ctrls)
LoopRange(n) == 0..(n - 1)

\* p_gen.gen_pulse(): one sample per time slot of the pulse generator; the
\* samples of the call-th call are the symbolic values <<call, slot>>
gen_pulse(call, slots) == [k \in 1..slots |-> <<call, k>>]

\* line 138: init_amps[:, j] = pulse   (j is zero-based)
SetColumn(a, col, pulse) ==
    [r \in 1..Len(a) |-> [a[r] EXCEPT ![col + 1] = pulse[r]]]

Shape(a) == <<Len(a), IF Len(a) = 0 THEN 0 ELSE Len(a[1])>>

Column(a, c) == [r \in 1..Len(a) |-> a[r][c]]

\* the gradient check placed after the optimisation run
NextStep_CheckAfterRun(step, cg, loop_more) ==
    CASE step = "build_model"            -> "build_target"
      [] step = "build_target"           -> "format_f_ext"
      [] step = "format_f_ext"           -> "create_pulse_optimizer"
      [] step = "create_pulse_optimizer" -> "np_zeros"
      [] step = "np_zeros"               ->
            IF loop_more THEN "gen_pulse" ELSE "initialize_controls"
      [] step = "gen_pulse"              ->
            IF loop_more THEN "gen_pulse" ELSE "initialize_controls"
      [] step = "initialize_controls"    -> "save_amps"
      [] step = "save_amps"              -> "run_optimization"
      [] step = "run_optimization"       ->
            IF cg THEN "check_grad" ELSE "report"
      [] step = "check_grad"             -> "report"
      [] step = "report"                 -> "plot"
      [] step = "plot"                   -> "done"

\* the amplitudes saved after the optimisation run instead of before it
NextStep_SaveAfterRun(step, cg, loop_more) ==
    CASE step = "build_model"            -> "build_target"
      [] step = "build_target"           -> "format_f_ext"
      [] step = "format_f_ext"           -> "create_pulse_optimizer"
      [] step = "create_pulse_optimizer" -> "np_zeros"
      [] step = "np_zeros"               ->
            IF loop_more THEN "gen_pulse" ELSE "initialize_controls"
      [] step = "gen_pulse"              ->
            IF loop_more THEN "gen_pulse" ELSE "initialize_controls"
      [] step = "initialize_controls"    ->
            IF cg THEN "check_grad" ELSE "run_optimization"
      [] step = "check_grad"             -> "run_optimization"
      [] step = "run_optimization"       -> "save_amps"
      [] step = "save_amps"              -> "report"
      [] step = "report"                 -> "plot"
      [] step = "plot"                   -> "done"

(***************************************************************************)
(* Program order: the statement group that follows `step`.  loop_more says *)
(* whether the loop of line 137 has another index to visit.                *)
(***************************************************************************)
NextStep(step, cg, loop_more) ==
    CASE step = "build_model"            -> "build_target"
      [] step = "build_target"           -> "format_f_ext"
      [] step = "format_f_ext"           -> "create_pulse_optimizer"
      [] step = "create_pulse_optimizer" -> "np_zeros"
      [] step = "np_zeros"               ->
            IF loop_more THEN "gen_pulse" ELSE "initialize_controls"
      [] step = "gen_pulse"              ->
            IF loop_more THEN "gen_pulse" ELSE "initialize_controls"
      [] step = "initialize_controls"    -> "save_amps"
      [] step = "save_amps"              ->
            IF cg THEN "check_grad" ELSE "run_optimization"
      [] step = "check_grad"             -> "run_optimization"
      [] step = "run_optimization"       -> "report"
      [] step = "report"                 -> "plot"
      [] step = "plot"                   -> "done"

\* a try/except around the optional gradient check that swallows its failure
OnException_Swallow(step) ==
    IF step = "check_grad" THEN "run_optimization" ELSE "terminated"

\* There is no try/except anywhere in the script: an exception raised in
\* any step ends the process.
OnException(step) == "terminated"

Steps == {"build_model", "build_target", "format_f_ext",
          "create_pulse_optimizer", "np_zeros", "gen_pulse",
          "initialize_controls", "save_amps", "check_grad",
          "run_optimization", "report", "plot"}

Invoke(step) == log' = Append(log, step)

(***************************************************************************)
(* Init: the interpreter is about to run the script; the source-level      *)
(* parameters are drawn from bounded sets.                                 *)
(***************************************************************************)
Init ==
    /\ pc = "build_model"
    /\ example_name \in ExampleNames
    /\ n_ctrls \in 1..MaxCtrls
    /\ n_ts \in 1..MaxTs
    /\ check_gradient \in BOOLEAN
    /\ p_type \in PulseTypes
    /\ f_ext = ""
    /\ num_tslots = 0
    /\ init_amps = <<>>
    /\ j = 0
    /\ gen_calls = 0
    /\ init_arg = <<>>
    /\ ctrl_amps = <<>>
    /\ pulsefile = ""
    /\ fs_writes = <<>>
    /\ grad_diff = -1
    /\ result = FALSE
    /\ raised_at = "none"
    /\ log = <<>>

\* lines 47-78: operators, drift, ctrls, n_ctrls
BuildModel ==
    /\ pc = "build_model"
    /\ Invoke("build_model")
    /\ pc' = NextStep(pc, check_gradient, FALSE)
    /\ UNCHANGED <<config, f_ext, num_tslots, init_amps, j, gen_calls,
                   init_arg, ctrl_amps, pulsefile, fs_writes, grad_diff,
                   result, raised_at>>

\* lines 80-84: initial, had_gate, target_DP
BuildTarget ==
    /\ pc = "build_target"
    /\ Invoke("build_target")
    /\ pc' = NextStep(pc, check_gradient, FALSE)
    /\ UNCHANGED <<config, f_ext, num_tslots, init_amps, j, gen_calls,
                   init_arg, ctrl_amps, pulsefile, fs_writes, grad_diff,
                   result, raised_at>>

\* lines 86-111: time-slot and termination parameters, f_ext
FormatFExt ==
    /\ pc = "format_f_ext"
    /\ Invoke("format_f_ext")
    /\ f_ext' = Format_f_ext(example_name, n_ts, p_type)
    /\ pc' = NextStep(pc, check_gradient, FALSE)
    /\ UNCHANGED <<config, num_tslots, init_amps, j, gen_calls, init_arg,
                   ctrl_amps, pulsefile, fs_writes, grad_diff, result,
                   raised_at>>

\* lines 127-132: cpo.create_pulse_optimizer(drift, ctrls, initial,
\* target_DP, n_ts, evo_time, ...)
CreatePulseOptimizer ==
    /\ pc = "create_pulse_optimizer"
    /\ Invoke("create_pulse_optimizer")
    /\ num_tslots' = n_ts
    /\ pc' = NextStep(pc, check_gradient, FALSE)
    /\ UNCHANGED <<config, f_ext, init_amps, j, gen_calls, init_arg,
                   ctrl_amps, pulsefile, fs_writes, grad_diff, result,
                   raised_at>>

\* lines 134-137: dyn, p_gen, init_amps = np.zeros(...), loop entry
NpZeros ==
    /\ pc = "np_zeros"
    /\ Invoke("np_zeros")
    /\ init_amps' = np_zeros(n_ts, n_ctrls)
    /\ j' = 0
    /\ pc' = NextStep(pc, check_gradient, 0 \in LoopRange(n_ctrls))
    /\ UNCHANGED <<config, f_ext, num_tslots, gen_calls, init_arg, ctrl_amps,
                   pulsefile, fs_writes, grad_diff, result, raised_at>>

\* line 138: init_amps[:, j] = p_gen.gen_pulse(); numpy raises ValueError
\* when the pulse cannot fill the column
GenPulse ==
    /\ pc = "gen_pulse"
    /\ Invoke("gen_pulse")
    /\ gen_calls' = gen_calls + 1
    /\ LET pulse == gen_pulse(gen_calls + 1, num_tslots) IN
       IF Len(pulse) = Len(init_amps)
       THEN /\ init_amps' = SetColumn(init_amps, j, pulse)
            /\ j' = j + 1
            /\ pc' = NextStep(pc, check_gradient, (j + 1) \in LoopRange(n_ctrls))
            /\ UNCHANGED raised_at
       ELSE /\ pc' = OnException(pc)
            /\ raised_at' = pc
            /\ UNCHANGED <<init_amps, j>>
    /\ UNCHANGED <<config, f_ext, num_tslots, init_arg, ctrl_amps, pulsefile,
                   fs_writes, grad_diff, result>>

\* line 140: dyn.initialize_controls(init_amps)
InitializeControls ==
    /\ pc = "initialize_controls"
    /\ Invoke("initialize_controls")
    /\ init_arg' = init_amps
    /\ ctrl_amps' = init_amps
    /\ pc' = NextStep(pc, check_gradient, FALSE)
    /\ UNCHANGED <<config, f_ext, num_tslots, init_amps, j, gen_calls,
                   pulsefile, fs_writes, grad_diff, result, raised_at>>

\* lines 143-146: pulsefile = ..., dyn.save_amps(pulsefile), print
SaveAmps ==
    /\ pc = "save_amps"
    /\ Invoke("save_amps")
    /\ pulsefile' = PulsefileName(f_ext)
    /\ fs_writes' = Append(fs_writes,
                           [name |-> PulsefileName(f_ext), rows |-> ctrl_amps])
    /\ pc' = NextStep(pc, check_gradient, FALSE)
    /\ UNCHANGED <<config, f_ext, num_tslots, init_amps, j, gen_calls,
                   init_arg, ctrl_amps, grad_diff, result, raised_at>>

\* a gradient check whose non-zero discrepancy skips the optimisation run
CheckGrad_Gated ==
    /\ pc = "check_grad"
    /\ Invoke("check_grad")
    /\ \E d \in 0..MaxGradDiff :
          /\ grad_diff' = d
          /\ pc' = IF d > 0 THEN "done"
                           ELSE NextStep(pc, check_gradient, FALSE)
    /\ UNCHANGED <<config, f_ext, num_tslots, init_amps, j, gen_calls,
                   init_arg, ctrl_amps, pulsefile, fs_writes, result,
                   raised_at>>

\* lines 148-155: the gradient check prints the discrepancy it computes
\* (what the library's wrappers do to the dynamics object while check_grad
\* evaluates them is library-internal and is not modelled)
CheckGrad ==
    /\ pc = "check_grad"
    /\ Invoke("check_grad")
    /\ \E d \in 0..MaxGradDiff : grad_diff' = d
    /\ pc' = NextStep(pc, check_gradient, FALSE)
    /\ UNCHANGED <<config, f_ext, num_tslots, init_amps, j, gen_calls,
                   init_arg, ctrl_amps, pulsefile, fs_writes, result,
                   raised_at>>

\* lines 157-159: result = optim.run_optimization()
RunOptimization ==
    /\ pc = "run_optimization"
    /\ Invoke("run_optimization")
    /\ result' = TRUE
    /\ pc' = NextStep(pc, check_gradient, FALSE)
    /\ UNCHANGED <<config, f_ext, num_tslots, init_amps, j, gen_calls,
                   init_arg, ctrl_amps, pulsefile, fs_writes, grad_diff,
                   raised_at>>

\* lines 164-177: stats report and summary
Report ==
    /\ pc = "report"
    /\ Invoke("report")
    /\ pc' = NextStep(pc, check_gradient, FALSE)
    /\ UNCHANGED <<config, f_ext, num_tslots, init_amps, j, gen_calls,
                   init_arg, ctrl_amps, pulsefile, fs_writes, grad_diff,
                   result, raised_at>>

\* lines 180-197: the two-panel plot and plt.show()
Plot ==
    /\ pc = "plot"
    /\ Invoke("plot")
    /\ pc' = NextStep(pc, check_gradient, FALSE)
    /\ UNCHANGED <<config, f_ext, num_tslots, init_amps, j, gen_calls,
                   init_arg, ctrl_amps, pulsefile, fs_writes, grad_diff,
                   result, raised_at>>

\* A library or runtime call of the current step raises: the step was
\* invoked, had no effect, and nothing catches the exception.
Raise ==
    /\ pc \in Steps
    /\ Invoke(pc)
    /\ raised_at' = pc
    /\ pc' = OnException(pc)
    /\ UNCHANGED <<config, f_ext, num_tslots, init_amps, j, gen_calls,
                   init_arg, ctrl_amps, pulsefile, fs_writes, grad_diff,
                   result>>

Next ==
    \/ BuildModel
    \/ BuildTarget
    \/ FormatFExt
    \/ CreatePulseOptimizer
    \/ NpZeros
    \/ GenPulse
    \/ InitializeControls
    \/ SaveAmps
    \/ CheckGrad
    \/ RunOptimization
    \/ Report
    \/ Plot
    \/ Raise

Spec == Init /\ [][Next]_vars

(***************************************************************************)
(* History helpers over the log of invoked steps.                          *)
(***************************************************************************)
Count(seq, x) == Cardinality({i \in 1..Len(seq) : seq[i] = x})

\* position of the first occurrence of x in seq, 0 when absent
Index(seq, x) ==
    IF \E i \in 1..Len(seq) : seq[i] = x
    THEN CHOOSE i \in 1..Len(seq) :
            seq[i] = x /\ \A k \in 1..(i - 1) : seq[k] # x
    ELSE 0

Invoked(x) == Index(log, x) > 0

\* the eight steps of the documented flow
Phase(step) ==
    CASE step = "build_model"            -> 1
      [] step = "build_target"           -> 2
      [] step = "format_f_ext"           -> 3
      [] step = "create_pulse_optimizer" -> 3
      [] step = "np_zeros"               -> 4
      [] step = "gen_pulse"              -> 4
      [] step = "initialize_controls"    -> 4
      [] step = "save_amps"              -> 4
      [] step = "check_grad"             -> 5
      [] step = "run_optimization"       -> 6
      [] step = "report"                 -> 7
      [] step = "plot"                   -> 8

(***************************************************************************)
(* C1: the steps occur in one fixed linear order -- build model, build     *)
(* target, create optimizer, generate initial pulse, (only when            *)
(* check_gradient is set) check gradient, run optimization, report, plot   *)
(* -- each at most once, none before its predecessor has completed, none   *)
(* out of order or repeated.                                               *)
(***************************************************************************)
C1_LinearOrder ==
    /\ Len(log) > 0 => Phase(log[1]) = 1
    /\ \A i \in 1..(Len(log) - 1) :
          LET a == Phase(log[i])
              b == Phase(log[i + 1])
          IN  /\ \/ b = a /\ a \in {3, 4}
                 \/ b = a + 1 /\ (b = 5 => check_gradient)
                 \/ a = 4 /\ b = 6 /\ ~check_gradient
              \* a later phase starts only when the whole previous one is done
              /\ b = 4 /\ a = 3 => log[i] = "create_pulse_optimizer"
              /\ b > 4 /\ a = 4 => log[i] = "save_amps"
    \* a step that raised did not complete: nothing is invoked after it
    /\ raised_at # "none" => log[Len(log)] = raised_at
    /\ \A s \in Steps \ {"gen_pulse"} : Count(log, s) <= 1
    /\ Count(log, "gen_pulse") <= n_ctrls

C1_Witness ==
    /\ pc = "done"
    /\ check_gradient
    /\ n_ctrls = MaxCtrls
    /\ Len(log) = 11 + n_ctrls

(***************************************************************************)
(* C2: the array handed to dyn.initialize_controls has shape (n_ts,        *)
(* n_ctrls): n_ts rows, one column per control generator, every column     *)
(* filled by one gen_pulse call.                                           *)
(***************************************************************************)
C2_InitAmpsShape ==
    Invoked("initialize_controls") /\ raised_at # "initialize_controls" =>
        /\ Shape(init_arg) = <<n_ts, n_ctrls>>
        /\ \A r \in 1..Len(init_arg) : Len(init_arg[r]) = n_ctrls
        /\ gen_calls = n_ctrls
        /\ \A c \in 1..n_ctrls :
              \E call \in 1..gen_calls :
                 Column(init_arg, c) = [k \in 1..n_ts |-> <<call, k>>]
        /\ \A c, d \in 1..n_ctrls :
              c # d => Column(init_arg, c) # Column(init_arg, d)

C2_Witness ==
    /\ Invoked("initialize_controls")
    /\ raised_at = "none"
    /\ n_ts = Shipped_n_ts
    /\ n_ctrls = Shipped_n_ctrls
    /\ Shape(init_arg) = <<Shipped_n_ts, Shipped_n_ctrls>>

(***************************************************************************)
(* C3 (as stated): the name passed to dyn.save_amps is exactly             *)
(* {example_name}_n_ts{n_ts}_ptype{p_type}.txt; for the shipped parameters *)
(* it is Lindblad_n_ts10_ptypeLIN.txt.                                     *)
(***************************************************************************)
NamePattern(name, ts, ptype) ==
    name \o "_n_ts" \o ToString(ts) \o "_ptype" \o ptype \o ".txt"

ShippedParameters ==
    example_name = "Lindblad" /\ n_ts = Shipped_n_ts /\ p_type = "LIN"

C3_Original ==
    \A i \in 1..Len(fs_writes) :
        /\ fs_writes[i].name = NamePattern(example_name, n_ts, p_type)
        /\ ShippedParameters =>
              fs_writes[i].name = "Lindblad_n_ts10_ptypeLIN.txt"

(***************************************************************************)
(* C3 (amended): the name passed to dyn.save_amps is "ctrl_amps_initial_"  *)
(* followed by {example_name}_n_ts{n_ts}_ptype{p_type}.txt; for the        *)
(* shipped parameters it is ctrl_amps_initial_Lindblad_n_ts10_ptypeLIN.txt *)
(***************************************************************************)
C3_PrefixedFileName ==
    \A i \in 1..Len(fs_writes) :
        /\ fs_writes[i].name =
              "ctrl_amps_initial_" \o NamePattern(example_name, n_ts, p_type)
        /\ fs_writes[i].name = pulsefile
        /\ ShippedParameters =>
              fs_writes[i].name = "ctrl_amps_initial_Lindblad_n_ts10_ptypeLIN.txt"

C3_Witness ==
    /\ ShippedParameters
    /\ Len(fs_writes) = 1
    /\ fs_writes[1].name = "ctrl_amps_initial_Lindblad_n_ts10_ptypeLIN.txt"

(***************************************************************************)
(* C4: the script is fail-stop with no retry: when a step raises, the      *)
(* process terminates, no later step executes and no step is re-executed;  *)
(* run_optimization is invoked at most once.                               *)
(***************************************************************************)
C4_FailStop ==
    /\ raised_at # "none" =>
          /\ pc = "terminated"
          /\ log[Len(log)] = raised_at
          /\ raised_at # "gen_pulse" => Count(log, raised_at) = 1
    /\ Count(log, "run_optimization") <= 1
    /\ \A s \in Steps \ {"gen_pulse"} : Count(log, s) <= 1
    /\ Count(log, "gen_pulse") <= n_ctrls

C4_Witness ==
    /\ raised_at = "check_grad"
    /\ pc = "terminated"
    /\ ~Invoked("run_optimization")

(***************************************************************************)
(* C7: the initial amplitudes are written to the output file exactly once, *)
(* after dyn.initialize_controls and before the gradient check and         *)
(* run_optimization; the file holds the initial amplitudes, n_ts rows, and *)
(* nothing later rewrites it.                                              *)
(***************************************************************************)
C7_SavedOnceBeforeRun ==
    /\ Len(fs_writes) <= 1
    /\ Count(log, "save_amps") <= 1
    /\ \A i \in 1..Len(fs_writes) :
          /\ fs_writes[i].rows = init_arg
          /\ fs_writes[i].rows = init_amps
          /\ Len(fs_writes[i].rows) = n_ts
          /\ Invoked("initialize_controls")
          /\ Index(log, "initialize_controls") < Index(log, "save_amps")
    /\ \A s \in {"check_grad", "run_optimization", "report", "plot"} :
          Invoked(s) =>
             /\ Len(fs_writes) = 1
             /\ Index(log, "save_amps") < Index(log, s)

C7_Witness ==
    /\ pc = "done"
    /\ check_gradient
    /\ n_ts = Shipped_n_ts
    /\ Len(fs_writes) = 1
    /\ Len(fs_writes[1].rows) = Shipped_n_ts

(***************************************************************************)
(* C8: the gradient check is executed if and only if check_gradient is     *)
(* true and it only produces the discrepancy: run_optimization is invoked  *)
(* exactly once in every non-failing execution, whatever check_gradient    *)
(* and whatever discrepancy check_grad returns.                            *)
(***************************************************************************)
C8_CheckNeverGatesRun ==
    /\ Invoked("check_grad") => check_gradient
    /\ Invoked("run_optimization") /\ check_gradient =>
          /\ Invoked("check_grad")
          /\ Index(log, "check_grad") < Index(log, "run_optimization")
    /\ grad_diff # -1 => Invoked("check_grad")
    /\ grad_diff # -1 /\ raised_at = "none" =>
          pc = "run_optimization" \/ Invoked("run_optimization")
    /\ pc = "done" =>
          /\ raised_at = "none"
          /\ Count(log, "run_optimization") = 1
          /\ Count(log, "check_grad") = (IF check_gradient THEN 1 ELSE 0)

C8_Witness ==
    /\ pc = "done"
    /\ check_gradient
    /\ grad_diff = MaxGradDiff
    /\ Count(log, "run_optimization") = 1

====
